---- MODULE Spec2Model ----
(***************************************************************************)
(* Model of the two TTS gateway servers of opencode-manager:               *)
(*   scripts/chatterbox-server.py  (model lifecycle, voice store,          *)
(*                                  native and OpenAI-compatible synthesis)*)
(*   scripts/coqui-server.py       (model lifecycle, synthesis, /voices)   *)
(*                                                                         *)
(* Every handler is an `async def` coroutine run by one event loop: a      *)
(* handler keeps the loop until it returns or reaches an `await` that      *)
(* suspends it.  The model keeps that loop explicit (variable loop) and    *)
(* splits get_model() into its statements, so that a load in flight is a   *)
(* state of the model.                                                     *)
(*                                                                         *)
(* Strings that the code inspects character by character (voice names,     *)
(* voice ids, file names) are sequences of one-character strings.          *)
(***************************************************************************)
EXTENDS Integers, Sequences, FiniteSets, TLC

\* ------------------------------------------------------------------ bounds
\* Number of request slots (requests that can be in the server at once).
MaxReq == 2
\* Number of loader invocations followed over one run.
MaxLoads == 2

\* ------------------------------------------------------- program constants
\* len(text) > 4096 is rejected.
MaxTextLen == 4096
\* Target sample rate of a stored voice sample.
TargetRate == 24000
\* coqui-server.py: sample_rate default.
DefaultRate == 22050

\* ------------------------------------------------------------ characters
LowerChars == {"a","b","c","d","e","f","g","h","i","j","k","l","m",
               "n","o","p","q","r","s","t","u","v","w","x","y","z"}
UpperChars == {"A","B","C","D","E","F","G","H","I","J","K","L","M",
               "N","O","P","Q","R","S","T","U","V","W","X","Y","Z"}
DigitChars == {"0","1","2","3","4","5","6","7","8","9"}

\* str.isalnum() of one character (on the characters the model uses).
IsAlnum(c) == c \in LowerChars \cup UpperChars \cup DigitChars

LowerOf ==
  [c \in UpperChars |->
     CASE c = "A" -> "a" [] c = "B" -> "b" [] c = "C" -> "c" [] c = "D" -> "d"
       [] c = "E" -> "e" [] c = "F" -> "f" [] c = "G" -> "g" [] c = "H" -> "h"
       [] c = "I" -> "i" [] c = "J" -> "j" [] c = "K" -> "k" [] c = "L" -> "l"
       [] c = "M" -> "m" [] c = "N" -> "n" [] c = "O" -> "o" [] c = "P" -> "p"
       [] c = "Q" -> "q" [] c = "R" -> "r" [] c = "S" -> "s" [] c = "T" -> "t"
       [] c = "U" -> "u" [] c = "V" -> "v" [] c = "W" -> "w" [] c = "X" -> "x"
       [] c = "Y" -> "y" [] c = "Z" -> "z"]

\* str.lower() of one character.
LowerChar(c) == IF c \in UpperChars THEN LowerOf[c] ELSE c

\* str.lower()
Lower(s) == [i \in 1..Len(s) |-> LowerChar(s[i])]

\* The reserved voice id "default".
DefaultId == <<"d","e","f","a","u","l","t">>

ExtWav == <<".","w","a","v">>
ExtMp3 == <<".","m","p","3">>
ExtOgg == <<".","o","g","g">>
ExtFlac == <<".","f","l","a","c">>

\* A variant of ResolveExts that tries .mp3 before .wav.
ResolveExtsSwapped == <<ExtMp3, ExtWav>>

\* for ext in [".wav", ".mp3"]  (resolution and deletion order)
ResolveExts == <<ExtWav, ExtMp3>>

\* A variant of the allow-list that also admits text files.
UploadExtsWithTxt == {ExtWav, ExtMp3, ExtOgg, ExtFlac, <<".","t","x","t">>}

\* The upload allow-list.
UploadExts == {ExtWav, ExtMp3, ExtOgg, ExtFlac}

\* ------------------------------------------------------------ pure helpers
\* A missing request field (request.get(...) returns None).
Missing == -1

\* upload_voice: "".join(c if c.isalnum() or c in "_-" else "_" for c in name).lower()
Sanitize(name) ==
  Lower([i \in 1..Len(name) |->
           IF IsAlnum(name[i]) \/ name[i] \in {"_", "-"} THEN name[i] ELSE "_"])

\* Index of the last occurrence of character c in s, 0 when there is none
\* (str.rfind, one-based).
RFind(s, c) ==
  LET hits == {i \in 1..Len(s) : s[i] = c}
  IN  IF hits = {} THEN 0 ELSE CHOOSE i \in hits : \A j \in hits : j <= i

\* Path(filename).name: the part after the last "/".
BaseName(s) == SubSeq(s, RFind(s, "/") + 1, Len(s))

\* Path(filename).suffix.lower(): from the last "." of the base name, unless
\* that dot starts or ends the name.
Suffix(filename) ==
  LET name == BaseName(filename)
      i    == RFind(name, ".")
  IN  IF 1 < i /\ i < Len(name)
      THEN Lower(SubSeq(name, i, Len(name)))
      ELSE << >>

\* get_device(): the value it stores in the global device and returns.
\* caps is the capability profile [cuda |-> torch.cuda.is_available(),
\* mps |-> torch.backends.mps.is_available()].
ChatterboxDevice(pref, caps) ==
  IF pref = "auto"
  THEN IF caps.cuda THEN "cuda" ELSE IF caps.mps THEN "mps" ELSE "cpu"
  ELSE pref

CoquiDevice(pref, caps) ==
  IF pref = "auto"
  THEN IF caps.cuda THEN "cuda" ELSE "cpu"
  ELSE pref

\* A variant of get_device() in which the Coqui server resolves "auto" as
\* the Chatterbox server does, without mapping mps to cpu.
get_device_unmapped(srv, pref, caps) == ChatterboxDevice(pref, caps)

get_device(srv, pref, caps) ==
  IF srv = "chatterbox" THEN ChatterboxDevice(pref, caps)
                        ELSE CoquiDevice(pref, caps)

\* synthesize: text = request.get("input") or request.get("text").
\* A field is Missing or the length of its string; "" and None are falsy.
NativeText(input, text) == IF input > 0 THEN input ELSE text

\* openai_compatible_synthesize: text = request.get("input")
OpenAIText(input) == input

\* The two validation tests of both synthesis handlers:
\*   if not text: 400        if len(text) > 4096: 400
\* A variant of TooLong that also refuses a text of exactly the limit.
TooLongInclusive(text) == text >= MaxTextLen

TooLong(text) == text > MaxTextLen

\* A variant of Rejected without the length test.
RejectedNoLength(text) == text <= 0

Rejected(text) == text <= 0 \/ TooLong(text)

\* ---------------------------------------------------------- the voice store
\* The file system as seen from the voice directory: a function from paths
\* <<stem, ext>>, relative to the directory, to the audio stored in the file
\* (voices_path / f"{stem}{ext}").
FileName(stem, ext) == <<stem, ext>>

\* The path names a file directly in the voice directory: it has no
\* separator, so that no component leads out of the directory.
InDir(f) == \A i \in DOMAIN f[1] : f[1][i] # "/"

\* voice_file.exists()
Exists(dir, f) == f \in DOMAIN dir

\* Writing a file (ta.save(str(output_path), ...)): creates or replaces it.
WriteFile(dir, f, audio) ==
  [g \in DOMAIN dir \cup {f} |-> IF g = f THEN audio ELSE dir[g]]

\* voice_file.unlink()
Unlink(dir, f) == [g \in DOMAIN dir \ {f} |-> dir[g]]

\* upload_voice: resample to 24000 when the rate differs, average the
\* channels when there is more than one.  src names the uploaded sound.
Normalize(audio) ==
  [src  |-> audio.src,
   rate |-> IF audio.rate # TargetRate THEN TargetRate ELSE audio.rate,
   ch   |-> IF audio.ch > 1 THEN 1 ELSE audio.ch]

\* The first existing <id>.wav, <id>.mp3 in that order; << >> when none
\* (the loop of synthesize, openai_compatible_synthesize and delete_voice).
FirstMatch(dir, id) ==
  LET hits == {i \in 1..Len(ResolveExts) : Exists(dir, FileName(id, ResolveExts[i]))}
  IN  IF hits = {} THEN << >>
      ELSE <<FileName(id, ResolveExts[CHOOSE i \in hits : \A j \in hits : i <= j])>>

\* A variant of the resolution without the test for "default": it looks the
\* id up in the directory like any other.
ResolveVoiceUnguarded(dir, voice) == FirstMatch(dir, voice)

\* synthesize: audio_prompt_path, << >> for None.
ResolveVoice(dir, voice) ==
  IF voice # DefaultId THEN FirstMatch(dir, voice) ELSE << >>

\* voices_path.glob("*.wav") in one of the orders the file system may give.
Globs(dir, ext) ==
  LET fs == {f \in DOMAIN dir : InDir(f) /\ f[2] = ext}
  IN  {s \in [1..Cardinality(fs) -> fs] : \A i, j \in DOMAIN s : i # j => s[i] # s[j]}

\* list_voice_samples(): the built-in entry, then one entry per file of the
\* two globs, for the enumeration orders wavs and mp3s.
BuiltinEntry == [id |-> DefaultId, is_custom |-> FALSE, path |-> << >>]

CustomEntries(fs) == [i \in DOMAIN fs |-> [id |-> fs[i][1], is_custom |-> TRUE, path |-> <<fs[i]>>]]

list_voice_samples(wavs, mp3s) ==
  <<BuiltinEntry>> \o CustomEntries(wavs) \o CustomEntries(mp3s)

\* -------------------------------------------------------- the audio encoder
\* openai_compatible_synthesize of chatterbox-server.py, lines 312-332.
\* failing is the set of torchaudio formats whose encoder raises on this
\* runtime; the result is the content type, or "raise" when ta.save raised
\* outside the inner try.
ChatterboxEncode(fmt, failing) ==
  CASE fmt = "mp3"  -> IF "mp3" \notin failing THEN "audio/mpeg" ELSE "audio/wav"
    [] fmt = "opus" -> IF "ogg" \notin failing THEN "audio/ogg" ELSE "raise"
    [] fmt = "aac"  -> "audio/wav"
    [] fmt = "flac" -> IF "flac" \notin failing THEN "audio/flac" ELSE "raise"
    [] OTHER        -> "audio/wav"

\* openai_compatible_synthesize of coqui-server.py: response_format is read
\* and not used, the body is always written by wavfile.write.
CoquiEncode(fmt, failing) == "audio/wav"

Encode(srv, fmt, failing) ==
  IF srv = "chatterbox" THEN ChatterboxEncode(fmt, failing)
                        ELSE CoquiEncode(fmt, failing)

\* ------------------------------------------------------------- input sets
\* Device preferences (CHATTERBOX_DEVICE / COQUI_DEVICE) and capability
\* profiles of the host.
Caps == [cuda : BOOLEAN, mps : BOOLEAN]
NoCaps == [cuda |-> FALSE, mps |-> FALSE]
Configs ==
  {<<"auto", c>> : c \in Caps} \cup {<<"mps", NoCaps>>}
\* Every preference with every capability profile.
Prefs == {"auto", "cuda", "mps", "cpu"}
AllConfigs == Prefs \X Caps

\* Values of a text field of a request body: missing, "", and strings of
\* the two lengths around the limit.
InputVals == {Missing, 0, MaxTextLen, MaxTextLen + 1}
TextVals == {Missing, MaxTextLen}

IdA == <<"a","_">>
IdNever == <<"z","z">>
\* An id that leads out of the voice directory: "../s".
IdOutside == <<".",".","/","s">>

\* response_format values; "missing" takes the handler's default.
Formats == {"missing", "mp3", "opus", "flac", "aac", "wav", "pcm"}
\* torchaudio formats whose encoder may raise on a runtime.
Encoders == {"mp3", "ogg", "flac"}

\* Names of the upload form.
Names == { << >>, <<"A"," ">>, <<"D","e","f","a","u","l","t">> }
\* Voice ids of synthesis and delete requests: "default", every id an upload
\* of the model can create, and one that no upload creates.
VoiceIds == {DefaultId, IdA, IdNever} \cup ({Sanitize(n) : n \in Names} \ { << >> })
\* The "voice" field of a JSON body is any string, "../s" among them.
BodyVoiceIds == VoiceIds \cup {IdOutside}
\* audio.filename of the upload.
FileNames ==
  { << >>, <<"v",".","M","P","3">>, <<"v",".","t","x","t">>,
    <<".","w","a","v">> }
\* Uploaded sounds: src names the sound, rate and ch its format.
Audios ==
  { [src |-> 1, rate |-> 44100, ch |-> 2],
    [src |-> 2, rate |-> TargetRate, ch |-> 1] }
\* A file put into the voice directory by hand.
RawAudio == [src |-> 0, rate |-> 44100, ch |-> 2]
\* A file beside the voice directory, at ../s.wav.
OutsideFile == FileName(IdOutside, ExtWav)
\* The file system with an empty voice directory.
EmptyDir == [f \in {OutsideFile} |-> RawAudio]
\* Voice directories the server may start with.
InitDirs ==
  { [f \in fs \cup {OutsideFile} |-> RawAudio] :
      fs \in SUBSET {FileName(IdA, ExtMp3)} }

\* Sample rates the loaded Coqui model may report (output_sample_rate), and
\* 0 when the attribute is absent.
EngineRates == {0, 48000}

\* ------------------------------------------------------------------ state
VARIABLES
  server,       \* "chatterbox" or "coqui": which of the two programs runs
  pref,         \* CHATTERBOX_DEVICE / COQUI_DEVICE
  caps,         \* what torch reports about the host
  model,        \* global model: 0 for None, else the handle (the number of
                \* the loader call that made it)
  device,       \* global device
  sample_rate,  \* global sample_rate (coqui)
  modelDev,     \* the device the model handle runs on, "none" without model
  loadCalls,    \* number of loader invocations so far
  handed,       \* handles that get_model() has returned to a caller
  files,        \* the voice directory
  task,         \* the coroutines: 0 is startup_event, 1..MaxReq are requests
  loop,         \* the coroutine that holds the event loop, NoTask when idle
  last          \* the response of the handler that returned last

config == <<server, pref, caps>>
lifecycle == <<model, device, sample_rate, modelDev, loadCalls, handed>>
vars == <<server, pref, caps, model, device, sample_rate, modelDev,
          loadCalls, handed, files, task, loop, last>>

NoTask == -1
StartupTask == 0
Requests == 1..MaxReq
Tasks == {StartupTask} \cup Requests

NoResp == [kind |-> "none"]

IdleTask == [pc |-> "idle", kind |-> "none", text |-> Missing,
             voice |-> << >>, fmt |-> "none", slug |-> << >>, dev |-> "none",
             h |-> 0, filename |-> << >>, name |-> << >>]

Init ==
  /\ server \in {"chatterbox", "coqui"}
  /\ \E c \in Configs : pref = c[1] /\ caps = c[2]
  /\ model = 0
  /\ device = "cpu"
  /\ sample_rate = DefaultRate
  /\ modelDev = "none"
  /\ loadCalls = 0
  /\ handed = {}
  /\ files \in (IF server = "chatterbox" THEN InitDirs ELSE {EmptyDir})
  /\ task = [t \in Tasks |->
               IF t = StartupTask
               THEN [IdleTask EXCEPT !.pc = "start", !.kind = "startup"]
               ELSE IdleTask]
  /\ loop = StartupTask
  /\ last = NoResp

\* ------------------------------------------------------------ the event loop
\* A variant of CanRun for handlers run on worker threads (plain `def`).
CanRunThreaded(t) == TRUE

\* All handlers are `async def`: the event loop runs coroutine t only when no
\* other coroutine holds the loop.
CanRun(t) == loop = NoTask \/ loop = t

\* A request arrives in the free slot t and its handler is called.
Begins(t) ==
  /\ t \in Requests
  /\ task[t].pc = "idle"
  /\ CanRun(t)
  /\ last = NoResp

\* Coroutine t executes its statement at pc.
At(t, pc) ==
  /\ task[t].pc = pc
  /\ CanRun(t)
  /\ last = NoResp

\* Coroutine t returns (or raises out of the handler) with response resp.
Returns(t, resp) ==
  /\ task' = [task EXCEPT ![t] = [IdleTask EXCEPT !.pc =
                 IF t = StartupTask THEN "finished" ELSE "idle"]]
  /\ loop' = NoTask
  /\ last' = resp

\* The response of the last handler has been sent.
Deliver ==
  /\ last # NoResp
  /\ last' = NoResp
  /\ UNCHANGED <<config, lifecycle, files, task, loop>>

\* --------------------------------------------------------- model lifecycle
\* The handlers that call get_model() contain no `await`: each runs from its
\* first statement to its return in one piece, except that the call of the
\* loader inside get_model() is a step of its own, so that a load in flight
\* is a state.
\*
\* The response of a handler that may call get_model(): startup_event,
\* synthesize, openai_compatible_synthesize and the Coqui list_voices.
\*   status   HTTP status (0 for startup_event, which answers nobody)
\*   warned   startup_event logged "Could not pre-load model"
\*   gm       the handler called get_model()
\*   loadErr  get_model() raised
\*   engine   "none", "ok" or "raise": the call of generate()/tts()
\*   prompt   the audio_prompt_path given to the engine, << >> for none
\*   handle   the handle get_model() returned, 0 when it raised
Resp(tk, status, ctype, gm, loadErr, engine, prompt, handle) ==
  [kind |-> tk.kind, status |-> status, ctype |-> ctype, text |-> tk.text,
   voice |-> tk.voice, fmt |-> tk.fmt, gm |-> gm, loadErr |-> loadErr,
   warned |-> (tk.kind = "startup" /\ loadErr),
   engine |-> engine, prompt |-> prompt, handle |-> handle]

\* get_model() raised: startup_event logs a warning; the synthesis handlers
\* catch the exception and answer 500; list_voices of the Coqui server lets
\* it through and the framework answers 500.
LoadRaised(t) ==
  Returns(t, Resp(task[t], IF task[t].kind = "startup" THEN 0 ELSE 500,
                  "none", TRUE, TRUE, "none", << >>, 0))

\* The synthesis handlers after get_model() returned handle h: voice
\* resolution (chatterbox), the engine call (generate() / tts(), which may
\* raise), the encoding of the result, and the response; `except Exception`
\* answers 500.
generate(t, tk, h) ==
  LET prompt == IF server = "chatterbox" THEN ResolveVoice(files, tk.voice)
                                         ELSE << >>
  IN  \/ Returns(t, Resp(tk, 500, "none", TRUE, FALSE, "raise", prompt, h))
      \/ /\ tk.kind = "synthesize"
         /\ Returns(t, Resp(tk, 200, "audio/wav", TRUE, FALSE, "ok", prompt, h))
      \/ /\ tk.kind = "speech"
         /\ \E failing \in SUBSET Encoders :
              LET ctype == Encode(server, tk.fmt, failing)
              IN  IF ctype = "raise"
                  THEN Returns(t, Resp(tk, 500, "none", TRUE, FALSE, "ok", prompt, h))
                  ELSE Returns(t, Resp(tk, 200, ctype, TRUE, FALSE, "ok", prompt, h))

\* What the caller of get_model() does with the handle h it got:
\* startup_event logs the success, the synthesis handlers go on to the
\* engine, list_voices of the Coqui server (single-speaker model) answers
\* its listing.
Continue(t, tk, h) ==
  IF tk.kind \in {"synthesize", "speech"}
  THEN generate(t, tk, h)
  ELSE Returns(t, Resp(tk, IF tk.kind = "startup" THEN 0 ELSE 200,
                       IF tk.kind = "startup" THEN "none" ELSE "application/json",
                       TRUE, FALSE, "none", << >>, h))

\* A variant of get_model() without the `if model is None` test: every call
\* loads.
get_model_always_loads(t, tk) ==
  /\ loadCalls < MaxLoads
  /\ device' = get_device(server, pref, caps)
  /\ loadCalls' = loadCalls + 1
  /\ task' = [task EXCEPT ![t] = [tk EXCEPT !.pc = "construct",
                                            !.dev = device',
                                            !.h = loadCalls']]
  /\ loop' = t
  /\ UNCHANGED <<model, sample_rate, modelDev, handed, last>>

\* A variant of get_model() that drops the handle it holds and loads anew on
\* every call.
get_model_reloading(t, tk) ==
  /\ loadCalls < MaxLoads
  /\ model' = 0
  /\ device' = get_device(server, pref, caps)
  /\ loadCalls' = loadCalls + 1
  /\ task' = [task EXCEPT ![t] = [tk EXCEPT !.pc = "construct",
                                            !.dev = device',
                                            !.h = loadCalls']]
  /\ loop' = t
  /\ UNCHANGED <<sample_rate, modelDev, handed, last>>

\* get_model() called by coroutine t, whose locals are tk: `if model is
\* None:` and, when it is, dev = get_device() and the call of the loader
\* begins; otherwise `return model` and the caller goes on.
get_model(t, tk) ==
  IF model = 0
  THEN /\ loadCalls < MaxLoads
       /\ device' = get_device(server, pref, caps)
       /\ loadCalls' = loadCalls + 1
       /\ task' = [task EXCEPT ![t] = [tk EXCEPT !.pc = "construct",
                                                 !.dev = device',
                                                 !.h = loadCalls']]
       /\ loop' = t
       /\ UNCHANGED <<model, sample_rate, modelDev, handed, last>>
  ELSE /\ handed' = handed \cup {model}
       /\ Continue(t, tk, model)
       /\ UNCHANGED <<model, device, sample_rate, modelDev, loadCalls>>

\* chatterbox: model = ChatterboxTTS.from_pretrained(device=dev) returns a
\* handle placed on dev, get_model() returns it and the caller goes on; or
\* the loader raises.
chatterbox_load(t) ==
  /\ server = "chatterbox"
  /\ At(t, "construct")
  /\ \/ /\ model' = task[t].h
        /\ modelDev' = task[t].dev
        /\ handed' = handed \cup {model'}
        /\ Continue(t, task[t], model')
     \/ /\ LoadRaised(t)
        /\ UNCHANGED <<model, modelDev, handed>>
  /\ UNCHANGED <<config, device, sample_rate, loadCalls, files>>

\* coqui: model = TTS(model_name=COQUI_MODEL, progress_bar=True)
\* The constructor builds the model on the cpu and the global is assigned at
\* once, or the constructor raises.
coqui_construct(t) ==
  /\ server = "coqui"
  /\ At(t, "construct")
  /\ \/ /\ model' = task[t].h
        /\ modelDev' = "cpu"
        /\ task' = [task EXCEPT ![t].pc = "to_device"]
        /\ UNCHANGED <<loop, last>>
     \/ /\ LoadRaised(t)
        /\ UNCHANGED <<model, modelDev>>
  /\ UNCHANGED <<config, device, sample_rate, loadCalls, handed, files>>

\* coqui: if dev == "cuda": model = model.to(dev)      (may raise)
coqui_to_device(t) ==
  /\ server = "coqui"
  /\ At(t, "to_device")
  /\ IF task[t].dev = "cuda"
     THEN \/ /\ modelDev' = "cuda"
             /\ task' = [task EXCEPT ![t].pc = "sample_rate"]
             /\ UNCHANGED <<loop, last>>
          \/ /\ LoadRaised(t)
             /\ UNCHANGED modelDev
     ELSE /\ task' = [task EXCEPT ![t].pc = "sample_rate"]
          /\ UNCHANGED <<modelDev, loop, last>>
  /\ UNCHANGED <<config, model, device, sample_rate, loadCalls, handed, files>>

\* coqui: sample_rate = model.synthesizer.output_sample_rate when the model
\* has one, else 22050; then `return model` and the caller goes on.
coqui_sample_rate(t) ==
  /\ server = "coqui"
  /\ At(t, "sample_rate")
  /\ \E r \in EngineRates :
       sample_rate' = IF r # 0 THEN r ELSE DefaultRate
  /\ handed' = handed \cup {model}
  /\ Continue(t, task[t], model)
  /\ UNCHANGED <<config, model, device, modelDev, loadCalls, files>>

\* startup_event: runs before the server takes requests; try: get_model().
startup_event(t) ==
  /\ t = StartupTask
  /\ At(t, "start")
  /\ get_model(t, task[t])
  /\ UNCHANGED <<config, files>>

\* ---------------------------------------------------------------- synthesis
\* request.get("response_format", "mp3") / request.get("response_format", "wav")
Format(srv, f) ==
  IF f = "missing" THEN (IF srv = "chatterbox" THEN "mp3" ELSE "wav") ELSE f

\* Both synthesis handlers: the two validation tests answer 400, otherwise
\* `try: tts_model = get_model()` and what follows it.
Validated(t, kind, txt, voice, fmt) ==
  LET tk == [IdleTask EXCEPT !.kind = kind, !.text = txt, !.voice = voice,
                             !.fmt = fmt]
      \* the 400 response says nothing about the voice or the format
      refused == [IdleTask EXCEPT !.kind = kind, !.text = txt]
  IN  /\ IF Rejected(txt)
         THEN /\ Returns(t, Resp(refused, 400, "none", FALSE, FALSE, "none", << >>, 0))
              /\ UNCHANGED lifecycle
         ELSE get_model(t, tk)
      /\ UNCHANGED <<config, files>>

\* POST /synthesize (both servers).
synthesize(t) ==
  /\ Begins(t)
  /\ \E input \in InputVals, text \in TextVals, voice \in BodyVoiceIds :
       Validated(t, "synthesize", NativeText(input, text), voice, "wav")

\* POST /v1/audio/speech (both servers).
openai_compatible_synthesize(t) ==
  /\ Begins(t)
  /\ \E input \in InputVals, voice \in BodyVoiceIds, f \in Formats :
       Validated(t, "speech", OpenAIText(input), voice, Format(server, f))

\* coqui GET /voices and GET /v1/audio/voices: tts_model = get_model()
\* outside any try, then the listing.
coqui_list_voices(t) ==
  /\ server = "coqui"
  /\ Begins(t)
  /\ get_model(t, [IdleTask EXCEPT !.kind = "voices"])
  /\ UNCHANGED <<config, files>>

\* A variant of health that calls get_model() to report on the model, and so
\* loads it when it is not loaded.
health_forcing_load(t) ==
  /\ Begins(t)
  /\ loadCalls < MaxLoads
  /\ model' = IF model = 0 THEN loadCalls + 1 ELSE model
  /\ loadCalls' = IF model = 0 THEN loadCalls + 1 ELSE loadCalls
  /\ Returns(t, [kind |-> "health", status |-> 200, model_loaded |-> TRUE,
                 device |-> device, sample_rate |-> sample_rate,
                 cuda_available |-> caps.cuda, mps_available |-> caps.mps])
  /\ UNCHANGED <<config, device, sample_rate, modelDev, handed, files>>

\* GET /health (both servers).
health(t) ==
  /\ Begins(t)
  /\ Returns(t, [kind |-> "health", status |-> 200, model_loaded |-> (model # 0),
                 device |-> device, sample_rate |-> sample_rate,
                 cuda_available |-> caps.cuda, mps_available |-> caps.mps])
  /\ UNCHANGED <<config, lifecycle, files>>

\* ---------------------------------------------------------- voice handlers
\* chatterbox GET /voices and GET /v1/audio/voices: both return the entries
\* of list_voice_samples().
list_voices(t) ==
  /\ server = "chatterbox"
  /\ Begins(t)
  /\ \E wavs \in Globs(files, ExtWav), mp3s \in Globs(files, ExtMp3),
        surface \in {"native", "openai"} :
       Returns(t, [kind |-> "list", status |-> 200, surface |-> surface,
                   listing |-> list_voice_samples(wavs, mp3s)])
  /\ UNCHANGED <<config, lifecycle, files>>

\* The response of upload_voice and delete_voice; before is the voice
\* directory when the handler was called.
\* audio is the sound that a successful upload received.
NoAudio == [src |-> -1, rate |-> 0, ch |-> 0]

StoreResp(kind, status, id, before, audio) ==
  [kind |-> kind, status |-> status, id |-> id, before |-> before,
   audio |-> audio]

\* The response of upload_voice: filename and name are the fields of the
\* form, cause names the statement that raised ("none" when none did), and
\* tmp tells what has become of the temporary file when the handler returns:
\* "none" when none was created, "removed" after os.unlink(tmp_path), "left"
\* when it still exists.
UploadResp(status, id, before, audio, filename, name, cause, tmp) ==
  [kind |-> "upload", status |-> status, id |-> id, before |-> before,
   audio |-> audio, filename |-> filename, name |-> name, cause |-> cause,
   tmp |-> tmp]

\* What ta.save leaves at output_path when it raises after it has opened the
\* file for writing: a truncated file that is no audio.
PartialAudio == [src |-> -2, rate |-> 0, ch |-> 0]

\* The temporary file after a failure of the statement named cause.
\* NamedTemporaryFile(delete=False) raising creates no file; tmp_file.write
\* raising leaves the file behind, for `with` only closes it and tmp_path
\* is not yet assigned; from ta.load on the `finally` unlinks it.
TmpAfter(cause) ==
  CASE cause = "read"     -> {"none"}
    [] cause = "tempfile" -> {"none", "left"}
    [] OTHER              -> {"removed"}

\* The file system after a failure of the statement named cause: unchanged,
\* or, when ta.save raised, possibly with a truncated file at output_path.
FilesAfter(dir, output_path, cause) ==
  IF cause = "save"
  THEN {dir, WriteFile(dir, output_path, PartialAudio)}
  ELSE {dir}

\* The statements of upload_voice inside the try that may raise: audio.read(),
\* the temporary file, ta.load, the resampling and downmix, ta.save.
UploadFailures == {"read", "tempfile", "load", "resample", "save"}

\* chatterbox POST /voices/upload up to `content = await audio.read()`,
\* where the coroutine may give up the event loop.
upload_voice(t) ==
  /\ server = "chatterbox"
  /\ Begins(t)
  /\ \E filename \in FileNames, name \in Names :
       LET safe_name == Sanitize(name)
       IN  IF \/ filename = << >>
              \/ safe_name = << >>
              \/ Suffix(filename) \notin UploadExts
           THEN /\ Returns(t, UploadResp(400, safe_name, files, NoAudio,
                                           filename, name, "none", "none"))
                /\ UNCHANGED files
           ELSE /\ task' = [task EXCEPT ![t] = [IdleTask EXCEPT !.pc = "reading",
                                !.kind = "upload", !.slug = safe_name,
                                !.filename = filename, !.name = name]]
                /\ loop' = NoTask
                /\ UNCHANGED <<files, last>>
  /\ UNCHANGED <<config, lifecycle>>

\* upload_voice from the end of audio.read() on: the temporary file, ta.load,
\* resampling, downmix, ta.save to <safe_name>.wav, os.unlink(tmp_path); any
\* exception answers 500.
upload_voice_resume(t) ==
  /\ server = "chatterbox"
  /\ At(t, "reading")
  /\ LET safe_name == task[t].slug
         output_path == FileName(safe_name, ExtWav)
     IN  \/ \E audio \in Audios :
              /\ files' = WriteFile(files, output_path, Normalize(audio))
              /\ Returns(t, UploadResp(200, safe_name, files, audio,
                                       task[t].filename, task[t].name, "none",
                                       "removed"))
         \/ \E cause \in UploadFailures :
              /\ files' \in FilesAfter(files, output_path, cause)
              /\ \E tmp \in TmpAfter(cause) :
                   Returns(t, UploadResp(500, safe_name, files, NoAudio,
                                         task[t].filename, task[t].name, cause,
                                         tmp))
  /\ UNCHANGED <<config, lifecycle>>

\* chatterbox DELETE /voices/{voice_id}
delete_voice(t) ==
  /\ server = "chatterbox"
  /\ Begins(t)
  /\ \E voice_id \in VoiceIds :
       IF voice_id = DefaultId
       THEN /\ Returns(t, StoreResp("delete", 400, voice_id, files, NoAudio))
            /\ UNCHANGED files
       ELSE LET hit == FirstMatch(files, voice_id)
            IN  IF hit # << >>
                THEN /\ files' = Unlink(files, hit[1])
                     /\ Returns(t, StoreResp("delete", 200, voice_id, files, NoAudio))
                ELSE /\ Returns(t, StoreResp("delete", 404, voice_id, files, NoAudio))
                     /\ UNCHANGED files
  /\ UNCHANGED <<config, lifecycle>>

\* ------------------------------------------------------------ specification
Next ==
  \/ Deliver
  \/ \E t \in Tasks :
       \/ chatterbox_load(t)
       \/ coqui_construct(t)
       \/ coqui_to_device(t)
       \/ coqui_sample_rate(t)
       \/ startup_event(t)
       \/ synthesize(t)
       \/ openai_compatible_synthesize(t)
       \/ coqui_list_voices(t)
       \/ health(t)
       \/ list_voices(t)
       \/ upload_voice(t)
       \/ upload_voice_resume(t)
       \/ delete_voice(t)

Spec == Init /\ [][Next]_vars

\* The server under every device preference and capability profile, with
\* the operations that read or resolve the device: the preload, the native
\* synthesis (which loads again after a failed preload), the Coqui voice
\* listing and /health.
InitDevices ==
  /\ server \in {"chatterbox", "coqui"}
  /\ \E c \in AllConfigs : pref = c[1] /\ caps = c[2]
  /\ model = 0
  /\ device = "cpu"
  /\ sample_rate = DefaultRate
  /\ modelDev = "none"
  /\ loadCalls = 0
  /\ handed = {}
  /\ files = EmptyDir
  /\ task = [t \in Tasks |->
               IF t = StartupTask
               THEN [IdleTask EXCEPT !.pc = "start", !.kind = "startup"]
               ELSE IdleTask]
  /\ loop = StartupTask
  /\ last = NoResp

NextDevices ==
  \/ Deliver
  \/ \E t \in Tasks :
       \/ chatterbox_load(t)
       \/ coqui_construct(t)
       \/ coqui_to_device(t)
       \/ coqui_sample_rate(t)
       \/ startup_event(t)
       \/ synthesize(t)
       \/ coqui_list_voices(t)
       \/ health(t)

SpecDevices == InitDevices /\ [][NextDevices]_vars

\* The server started on an empty voice directory.
InitEmpty == Init /\ files = EmptyDir

SpecEmpty == InitEmpty /\ [][Next]_vars

\* ------------------------------------------------------------------ claims
\* Coroutines inside the load of get_model(): between the start of the
\* loader call and the return of get_model().
InFlight == {t \in Tasks : task[t].pc \in {"construct", "to_device", "sample_rate"}}

\* Coroutines that are not executing: not started, returned, or suspended at
\* `await audio.read()`.
Parked(t) == task[t].pc \in {"idle", "finished", "reading"}

\* C1: in both servers at most one model load is in flight at any time, and
\* while a load is in flight every other coroutine is parked: a request that
\* arrives during the load does not run, and so starts no second load, until
\* the load has finished or failed.
C1_AtMostOneLoadInFlight ==
  /\ Cardinality(InFlight) <= 1
  /\ \A t \in InFlight : \A u \in Tasks \ {t} : Parked(u)

\* C1 witness: a second load attempt (after a failed one) is in flight while
\* another request of the server is suspended in its upload.
C1_Witness ==
  \E t \in InFlight :
    /\ loadCalls >= 2
    /\ \E u \in Requests \ {t} : task[u].pc = "reading"

\* C2: once a load has succeeded the loader is never invoked again (the
\* last loader call is the one that made the model; without a failed load
\* that is exactly one call), and every handle that get_model() has returned
\* to any caller is that one model.
C2_OneLoadOneHandle ==
  /\ model # 0 => loadCalls = model
  /\ Cardinality(handed) <= 1
  /\ handed \subseteq {model}

\* C2 witness: startup_event loaded the model (loader call 1) and a later
\* synthesis request got the same handle without another loader call.
C2_Witness ==
  /\ last.kind = "synthesize"
  /\ last.status = 200
  /\ last.handle = 1
  /\ model = 1
  /\ loadCalls = 1
  /\ handed = {1}

\* Responses of the handlers that call get_model().
LifeKinds == {"startup", "synthesize", "speech", "voices"}
SynthKinds == {"synthesize", "speech"}

\* C3: whenever get_model() raises, at whichever step of the load, the error
\* reaches the caller (500 for a request, a logged warning at startup) and
\* the lifecycle is unloaded afterwards (the global model is None, so that
\* /health reports model_loaded = false and the next get_model() loads anew).
C3_LoadFailureLeavesUnloaded ==
  (last.kind \in LifeKinds /\ last.loadErr) =>
     /\ model = 0
     /\ IF last.kind = "startup" THEN last.warned ELSE last.status = 500

\* The ids of a listing, in order.
IdsOf(listing) == [i \in DOMAIN listing |-> listing[i].id]

\* No two positions of sequence s hold the same value.
Distinct(s) == \A i, j \in DOMAIN s : i # j => s[i] # s[j]

\* C4 (under SpecEmpty, the server started on an empty voice directory):
\* after any uploads and deletes the ids of every listing are pairwise
\* distinct, and no upload has created an asset whose id is "default".
C4_IdsUniqueDefaultReserved ==
  /\ \A f \in DOMAIN files : f[1] # DefaultId
  /\ last.kind = "list" => Distinct(IdsOf(last.listing))

\* C5: every listing has the built-in "default" entry first and then the
\* custom assets with one entry per id, also when the directory holds
\* x.wav and x.mp3.
C5_ListingDefaultFirstDeduplicated ==
  last.kind = "list" =>
     /\ last.listing[1] = BuiltinEntry
     /\ \A i, j \in 2..Len(last.listing) :
          i # j => last.listing[i].id # last.listing[j].id

\* The files of directory dir that belong to voice id.
FilesOf(dir, id) == {f \in DOMAIN dir : f[1] = id}

\* C6: DELETE /voices/default answers 400 and removes nothing; DELETE of an
\* id without any asset (in particular one never created) answers 404 and
\* removes nothing; a successful delete removes exactly one file, <id>.wav
\* when it exists and else <id>.mp3, and leaves every other file as it was.
C6_DeleteContract ==
  last.kind = "delete" =>
     LET id == last.id
         before == last.before
         wav == <<id, ExtWav>>
         mp3 == <<id, ExtMp3>>
     IN  /\ id = DefaultId => (last.status = 400 /\ files = before)
         /\ (id # DefaultId /\ FilesOf(before, id) = {}) =>
               (last.status = 404 /\ files = before)
         /\ last.status = 200 =>
               /\ DOMAIN before \ DOMAIN files =
                    {IF wav \in DOMAIN before THEN wav ELSE mp3}
               /\ DOMAIN files \subseteq DOMAIN before
               /\ \A f \in DOMAIN files : files[f] = before[f]
         /\ last.status \in {200, 400, 404}

\* C6 witness: a successful delete of an id that had both <id>.wav and
\* <id>.mp3; the .wav file is gone and the .mp3 file is still there.
C6_Witness ==
  /\ last.kind = "delete"
  /\ last.status = 200
  /\ {<<last.id, ExtWav>>, <<last.id, ExtMp3>>} \subseteq DOMAIN last.before
  /\ <<last.id, ExtMp3>> \in DOMAIN files
  /\ <<last.id, ExtWav>> \notin DOMAIN files

\* Number of entries with id in a listing.
CountId(listing, id) == Cardinality({i \in DOMAIN listing : listing[i].id = id})

\* C7 (under SpecEmpty, where every file of the directory comes from an
\* upload): after a successful upload to a slug that an earlier upload had
\* already created, every listing shows exactly one entry for that id and
\* the stored asset is the normalized audio of this last upload.
C7_SecondUploadOverwrites ==
  ( /\ last.kind = "upload"
    /\ last.status = 200
    /\ <<last.id, ExtWav>> \in DOMAIN last.before ) =>
     /\ files[<<last.id, ExtWav>>] =
          [src |-> last.audio.src, rate |-> TargetRate, ch |-> 1]
     /\ \A wavs \in Globs(files, ExtWav), mp3s \in Globs(files, ExtMp3) :
          CountId(list_voice_samples(wavs, mp3s), last.id) = 1

\* A text that the specification refuses: missing, empty, or longer than
\* the limit.
InvalidText(x) == x = Missing \/ x = 0 \/ x > MaxTextLen

\* C8: on both surfaces of both servers a text of exactly 4096 characters
\* passes validation, a text of 4097 characters is answered 400, and the
\* verdict depends on the text alone: 400 exactly for a missing, empty or
\* over-long text, whichever surface received it.
C8_LengthLimit ==
  last.kind \in SynthKinds =>
     /\ last.text = MaxTextLen => last.status # 400
     /\ last.text = MaxTextLen + 1 => last.status = 400
     /\ last.status = 400 <=> InvalidText(last.text)

\* C8 witness: the OpenAI-compatible surface accepted and served a text of
\* exactly the limit.
C8_Witness ==
  /\ last.kind = "speech"
  /\ last.text = MaxTextLen
  /\ last.status = 200

\* One step in which a synthesis handler returns.
SynthReturns == last = NoResp /\ last'.kind \in SynthKinds

\* C9: a synthesis request with a missing, empty or over-long text never
\* gets past validation: its handler returns 400 in the step that started
\* it, without a call of get_model() or of the engine and with the whole
\* lifecycle state (model, device, sample rate, loader calls) unchanged; no
\* coroutine of a synthesis handler that is under way holds such a text.
C9_RejectedNeverTouchesModel ==
  [][ /\ \A t \in Requests :
           task'[t].kind \in SynthKinds => ~InvalidText(task'[t].text)
      /\ (SynthReturns /\ (InvalidText(last'.text) \/ last'.status = 400)) =>
           /\ last'.status = 400
           /\ ~last'.gm
           /\ last'.engine = "none"
           /\ lifecycle' = lifecycle ]_vars

\* C9 witness: an over-long OpenAI-compatible request was refused while the
\* model was unloaded (after a failed preload), and it still is.
C9_Witness ==
  /\ last.kind = "speech"
  /\ last.status = 400
  /\ last.text = MaxTextLen + 1
  /\ model = 0
  /\ loadCalls = 1

\* C10: an OpenAI-compatible synthesis whose load and engine call succeeded
\* is answered 200 whatever the requested format, with content type
\* audio/wav when the format's encoder was not used.
C10_FormatNeverFails ==
  (last.kind = "speech" /\ last.gm /\ ~last.loadErr /\ last.engine = "ok") =>
     /\ last.status = 200
     /\ last.ctype \in {"audio/wav", "audio/mpeg", "audio/ogg", "audio/flac"}

\* One step in which the handler of GET /health runs (it returns at once).
HealthReturns == last = NoResp /\ last'.kind = "health"

\* C11: GET /health reports model_loaded = true exactly when the shared
\* model handle is present, reports the global device and sample rate as
\* they are, and its step starts no load and leaves the model handle, the
\* device, the sample rate and the loader count unchanged.
C11_HealthReflectsWithoutLoading ==
  [][ HealthReturns =>
        /\ last'.model_loaded = (model # 0)
        /\ last'.device = device
        /\ last'.sample_rate = sample_rate
        /\ lifecycle' = lifecycle
        /\ InFlight' = InFlight ]_vars

\* C11 witness: after a failed preload /health reported model_loaded =
\* false, and the model is still unloaded with no further loader call.
C11_Witness ==
  /\ last.kind = "health"
  /\ ~last.model_loaded
  /\ model = 0
  /\ loadCalls = 1

\* A synthesis response of the Chatterbox server whose request passed
\* validation and obtained the model, for a voice id other than "default"
\* under which the voice directory holds no file.
UnknownVoiceServed ==
  /\ server = "chatterbox"
  /\ last.kind \in SynthKinds
  /\ last.gm /\ ~last.loadErr
  /\ last.voice # DefaultId
  /\ FilesOf(files, last.voice) = {}

\* C12: on both synthesis surfaces of the Chatterbox server a valid request
\* whose voice id is not "default" and matches no stored asset is not an
\* error: the engine is invoked without a reference audio path, and the
\* request is answered 200 whenever the engine call succeeded.
C12_UnknownVoiceFallsBack ==
  UnknownVoiceServed =>
     /\ last.engine # "none"
     /\ last.prompt = << >>
     /\ (last.engine = "ok" => last.status = 200)

\* C13: after a successful upload, resolving the returned voice_id as a
\* synthesis request does yields the stored path <voice_id>.wav, and the
\* audio stored there has one channel and the rate 24000 whatever the
\* uploaded audio was.
C13_UploadThenResolve ==
  (last.kind = "upload" /\ last.status = 200) =>
     /\ ResolveVoice(files, last.id) = <<FileName(last.id, ExtWav)>>
     /\ files[FileName(last.id, ExtWav)].ch = 1
     /\ files[FileName(last.id, ExtWav)].rate = TargetRate

\* C14: a synthesis request for the voice "default" that reached the engine
\* was served without a reference audio path, whether or not the voice
\* directory holds a file default.wav or default.mp3.
C14_DefaultNeverResolves ==
  (last.kind \in SynthKinds /\ last.gm /\ ~last.loadErr
     /\ last.voice = DefaultId) =>
     /\ last.engine # "none"
     /\ last.prompt = << >>

\* C14 witness: the Chatterbox engine succeeded for "default" without a
\* reference while the directory holds default.wav.
C14_Witness ==
  /\ server = "chatterbox"
  /\ last.kind \in SynthKinds
  /\ last.voice = DefaultId
  /\ last.engine = "ok"
  /\ last.prompt = << >>
  /\ Exists(files, FileName(DefaultId, ExtWav))

\* The containers an upload may have, by the suffix of its file name.
Containers == {ExtWav, ExtMp3, ExtOgg, ExtFlac}

\* The form of an upload is refused: no file name (no file was sent), a name
\* that sanitizes to the empty string, or a container outside the list.
InvalidUpload(filename, name) ==
  \/ filename = << >>
  \/ Sanitize(name) = << >>
  \/ Suffix(filename) \notin Containers

RivalUpload ==
  \E u \in Requests : task[u].pc = "reading" /\ task[u].slug = last.id

\* C16 (under SpecEmpty): when an upload returns successfully, whatever other
\* uploads are under way, <id>.wav holds the complete normalized audio of
\* this upload, the last writer, and every other file of the directory is
\* as it was, so that concurrent uploads to different ids keep both assets;
\* and when a second upload to the same id is under way, every listing
\* shows exactly one entry for that id.
C16_ConcurrentUploads ==
  (last.kind = "upload" /\ last.status = 200) =>
     LET target == FileName(last.id, ExtWav)
     IN  /\ Exists(files, target)
         /\ files[target] = Normalize(last.audio)
         /\ \A f \in DOMAIN last.before \ {target} :
              Exists(files, f) /\ files[f] = last.before[f]
         /\ RivalUpload =>
              \A wavs \in Globs(files, ExtWav), mp3s \in Globs(files, ExtMp3) :
                 CountId(list_voice_samples(wavs, mp3s), last.id) = 1

\* C17: once a call of get_model() has returned the model (a load has
\* succeeded), no step of any operation takes the model handle away, and
\* every /health from then on reports model_loaded = true.
C17_LoadedStaysLoaded ==
  [][ handed # {} =>
        /\ model' # 0
        /\ (last'.kind = "health" => last'.model_loaded) ]_vars

\* C17 witness: the first load failed, the second succeeded and served a
\* request, and a later /health reported model_loaded = true.
C17_Witness ==
  /\ handed # {}
  /\ loadCalls = 2
  /\ last.kind = "health"
  /\ last.model_loaded

\* The device the resolver is said to choose: an explicit preference as it
\* is; for "auto" the first available of cuda, mps, cpu, where the Coqui
\* server takes cpu in place of mps.
DeviceByOrder ==
  IF pref # "auto" THEN pref
  ELSE IF caps.cuda THEN "cuda"
  ELSE IF caps.mps THEN (IF server = "coqui" THEN "cpu" ELSE "mps")
  ELSE "cpu"

\* One step in which get_device() is called (by get_model(), its one caller).
GetDeviceCalled == loadCalls' = loadCalls + 1

\* The value get_device() returned to the get_model() of that step.
GetDeviceReturned(d) ==
  \E t \in Tasks :
    task[t].pc # "construct" /\ task'[t].pc = "construct" /\ task'[t].dev = d

\* C18 as stated: get_device() returns the device of the stated order and is
\* pure: its call changes nothing of the server state, in particular not the
\* device that /health reports.
C18_GetDevicePure ==
  [][ GetDeviceCalled =>
        /\ GetDeviceReturned(DeviceByOrder)
        /\ UNCHANGED <<model, device, sample_rate, modelDev, files>> ]_vars

\* C18 amended: get_device() returns the device of the stated order, stores
\* that value in the global device that /health reports, and changes nothing
\* else of the server state.
C18_GetDeviceStoresResult ==
  [][ GetDeviceCalled =>
        /\ GetDeviceReturned(DeviceByOrder)
        /\ device' = DeviceByOrder
        /\ UNCHANGED <<model, sample_rate, modelDev, files>> ]_vars

\* C18 witness: on a host with mps and without cuda the Chatterbox resolver
\* has returned "mps" for "auto", and the global device holds it.
C18_Witness ==
  /\ server = "chatterbox"
  /\ pref = "auto" /\ caps.mps /\ ~caps.cuda
  /\ \E t \in Tasks : task[t].pc = "construct" /\ task[t].dev = "mps"
  /\ device = "mps"

\* C19: whenever /health reports model_loaded = true after get_model() has
\* returned the model, the device it reports is the device the model is on.
C19_ReportedDeviceIsModelDevice ==
  (last.kind = "health" /\ last.model_loaded /\ handed # {}) =>
     last.device = modelDev

\* The files a successful delete has removed.
Removed == DOMAIN last.before \ DOMAIN files

\* C20: whatever voice id a synthesis request or a delete carries, the
\* reference file handed to the engine and the file a delete removes lie
\* directly in the voice directory.
C20_ResolutionConfined ==
  /\ (last.kind \in SynthKinds /\ last.prompt # << >>) => InDir(last.prompt[1])
  /\ last.kind = "delete" => \A f \in Removed : InDir(f)

\* C21: when an upload is refused (400) or fails (500), the file system is
\* what it was when the handler set about its work, with the same assets
\* and the same content in each, the asset of the upload's own slug among
\* them, and the temporary file of the upload does not exist any more.
C21_FailedUploadLeavesNoTrace ==
  (last.kind = "upload" /\ last.status # 200) =>
     /\ DOMAIN files = DOMAIN last.before
     /\ \A f \in DOMAIN files : files[f] = last.before[f]
     /\ last.tmp # "left"

====
